---- MODULE Spec2Model ----
(***************************************************************************)
(* State-machine model of winnower.py (olivierh59500/combine).             *)
(*                                                                         *)
(* Python strings are modelled as sequences of one-character strings, so   *)
(* that ordering, splitting, stripping and formatting are computed rather  *)
(* than assumed.  An IPAddress is the tuple of its four octets; the value  *)
(* int(address) is only ever used through its decimal rendering, which is  *)
(* computed by long arithmetic on digit sequences (the 32-bit value does   *)
(* not fit the checker's integers).                                        *)
(***************************************************************************)
EXTENDS Integers, Sequences, FiniteSets, TLC

VARIABLES
    pc,           \* position of winnow() / of the harness in the pure specifications
    config,       \* contents of combine.cfg, or NoFile
    in_file,      \* contents of in_file: the batch of indicator records
    cfg_success,  \* whether config.read('combine.cfg') read the file
    enrich_ip,    \* the boolean winnow makes of [Winnower] enrich_ip
    enrich_dns,   \* the boolean winnow makes of [Winnower] enrich_dns
    dnsdb,        \* "unset", "client" or "None" (after the canary query)
    queries,      \* the queries sent to the passive-DNS service, in order
    crop,         \* the input batch (json.load of in_file)
    rows,         \* the rows of data/GeoIPASNum2.csv
    gi_org,       \* the module-level SortedDict, as its item list in key order
    i,            \* number of records of crop the loop has finished
    wheat,        \* the cleaned list
    enriched,     \* the enriched list
    out_file,     \* contents of out_file, or Unwritten
    enr_file,     \* contents of enr_file, or Unwritten
    log,          \* the logger's events, in order
    address,      \* harness: the argument of org_by_addr
    org_result,   \* harness: the result of org_by_addr
    dns_records,  \* harness: the records the passive-DNS service returned
    date,         \* harness: the date argument
    filtered,     \* harness: result of filter_date
    hits,         \* harness: result of maxhits
    ip_addr       \* harness: result of enrich_FQDN

\* the variables of winnow() other than pc and the index
wvars == <<config, in_file, cfg_success, enrich_ip, enrich_dns, dnsdb, queries, crop, i,
           wheat, enriched, out_file, enr_file, log>>

\* the variables of the index harness and of the passive-DNS harness
ovars == <<address, org_result>>

dvars == <<dns_records, date, filtered, hits, ip_addr>>

vars == <<pc, wvars, rows, gi_org, ovars, dvars>>

-----------------------------------------------------------------------------
(* Bounds of the model *)

MaxAddr == 12     \* org harness: interval bounds and addresses are 0.0.0.0 .. 0.0.0.MaxAddr
MaxRows == 2      \* org harness: rows of the reference table
MaxRecs == 2      \* dns harness: records in one passive-DNS answer
MaxBatch == 2     \* winnow: records in the input batch

-----------------------------------------------------------------------------
(* Python values *)

\* Python's None; distinct from every string, the empty string included
None == <<"<None>">>

\* the state of a file winnow has not written
Unwritten == <<"<unwritten>">>

DigitChars == <<"0", "1", "2", "3", "4", "5", "6", "7", "8", "9">>

IsDigit(c) == \E d \in 1..10 : DigitChars[d] = c

\* int(c) of a one-digit string
DigitVal(c) == (CHOOSE d \in 1..10 : DigitChars[d] = c) - 1

\* ordinal order of the characters that occur in index keys: "." < "0" < ... < "9"
CharOrd(c) == IF c = "." THEN 0 ELSE 1 + DigitVal(c)

\* Python's s1 < s2 on str: lexicographic by character, a proper prefix is smaller
RECURSIVE StrLess(_, _)
StrLess(s, t) ==
    IF t = <<>> THEN FALSE
    ELSE IF s = <<>> THEN TRUE
    ELSE IF Head(s) # Head(t) THEN CharOrd(Head(s)) < CharOrd(Head(t))
    ELSE StrLess(Tail(s), Tail(t))

StrLeq(s, t) == s = t \/ StrLess(s, t)

\* str(n) for a small non-negative int n
RECURSIVE Str(_)
Str(n) == IF n < 10 THEN <<DigitChars[n + 1]>>
          ELSE Str(n \div 10) \o <<DigitChars[(n % 10) + 1]>>

\* int(s) for a short decimal string
RECURSIVE ParseInt(_)
ParseInt(s) == IF s = <<>> THEN 0
               ELSE 10 * ParseInt(SubSeq(s, 1, Len(s) - 1)) + DigitVal(s[Len(s)])

\* least-significant-first decimal digits of ds * m + c
RECURSIVE MulAdd(_, _, _)
MulAdd(ds, m, c) ==
    IF ds = <<>> THEN (IF c = 0 THEN <<>> ELSE <<c % 10>> \o MulAdd(<<>>, m, c \div 10))
    ELSE LET v == ds[1] * m + c
         IN  <<v % 10>> \o MulAdd(Tail(ds), m, v \div 10)

Reverse(s) == [k \in 1..Len(s) |-> s[Len(s) + 1 - k]]

\* str(int(address)): decimal rendering of ((o1*256 + o2)*256 + o3)*256 + o4
StrInt(octets) ==
    LET d1 == MulAdd(<<>>, 256, octets[1])
        d2 == MulAdd(d1, 256, octets[2])
        d3 == MulAdd(d2, 256, octets[3])
        d4 == MulAdd(d3, 256, octets[4])
    IN  IF d4 = <<>> THEN <<"0">>
        ELSE [k \in 1..Len(d4) |-> DigitChars[Reverse(d4)[k] + 1]]

\* numeric order of two canonical decimal strings
NumLeq(s, t) == Len(s) < Len(t) \/ (Len(s) = Len(t) /\ StrLeq(s, t))

-----------------------------------------------------------------------------
(* ASN/organisation index: load_gi_org, org_by_addr *)

\* position of the first occurrence of character c in s, 0 if there is none
FirstIndex(s, c) ==
    IF \E k \in 1..Len(s) : s[k] = c
    THEN CHOOSE k \in 1..Len(s) : s[k] = c /\ \A j \in 1..(k - 1) : s[j] # c
    ELSE 0

\* s.partition(' '): <<head, sep, tail>>
Partition(s) ==
    LET k == FirstIndex(s, " ")
    IN  IF k = 0 THEN <<s, <<>>, <<>>>>
        ELSE <<SubSeq(s, 1, k - 1), <<" ">>, SubSeq(s, k + 1, Len(s))>>

\* s.replace("AS", ""): every non-overlapping occurrence removed, left to right
RECURSIVE ReplaceAS(_)
ReplaceAS(s) ==
    IF Len(s) < 2 THEN s
    ELSE IF s[1] = "A" /\ s[2] = "S" THEN ReplaceAS(SubSeq(s, 3, Len(s)))
    ELSE <<s[1]>> \o ReplaceAS(Tail(s))

\* the item list of the SortedDict after  d[key] = value
RECURSIVE SetItem(_, _, _)
SetItem(d, key, value) ==
    IF d = <<>> THEN <<[key |-> key, value |-> value]>>
    ELSE IF d[1].key = key THEN <<[key |-> key, value |-> value]>> \o Tail(d)
    ELSE IF StrLess(key, d[1].key) THEN <<[key |-> key, value |-> value]>> \o d
    ELSE <<d[1]>> \o SetItem(Tail(d), key, value)

\* IPRange(start, end) of two decimal strings, with the organisation label
GiNet(row) == [first |-> row.start, last |-> row.end, org |-> row.org]

\* load_gi_org: every row of the file is stored under its start string
RECURSIVE load_gi_org(_, _)
load_gi_org(d, rs) ==
    IF rs = <<>> THEN d
    ELSE load_gi_org(SetItem(d, rs[1].start, GiNet(rs[1])), Tail(rs))

\* SortedDict.bisect(key) (bisect_right): the number of keys <= key
Bisect(d, key) == Cardinality({k \in 1..Len(d) : StrLeq(d[k].key, key)})

\* address in IPRange
InRange(octets, net) ==
    NumLeq(net.first, StrInt(octets)) /\ NumLeq(StrInt(octets), net.last)

\* org_by_addr(address) on the index d; iloc[-1] is the last item, and
\* indexing an empty list raises IndexError
org_by_addr(d, octets) ==
    LET gi_index == Bisect(d, StrInt(octets))
    IN  IF d = <<>> THEN [raised |-> TRUE, as_num |-> None, as_name |-> None]
        ELSE LET gi_net == d[IF gi_index = 0 THEN Len(d) ELSE gi_index].value
                 parts == Partition(gi_net.org)
             IN  IF InRange(octets, gi_net)
                 THEN [raised |-> FALSE, as_num |-> ReplaceAS(parts[1]), as_name |-> parts[3]]
                 ELSE [raised |-> FALSE, as_num |-> None, as_name |-> None]

-----------------------------------------------------------------------------
(* Harness for the index: a reference table is loaded, one address looked up *)

\* the label of the k-th row of the harness table: "AS<k> O<k>"
OrgLabel(k) == <<"A", "S">> \o Str(k) \o <<" ", "O">> \o Str(k)

\* rows (start, end, org) with decimal start and end, as GeoIPASNum2.csv has them
OrgRow(lo, hi, k) == [start |-> Str(lo), end |-> Str(hi), org |-> OrgLabel(k)]

\* the tables of at most MaxRows pairwise disjoint intervals within 0..MaxAddr,
\* rows in ascending order
RECURSIVE OrgTablesFrom(_, _)
OrgTablesFrom(lo, k) ==
    {<<>>} \cup
    (IF k > MaxRows THEN {}
     ELSE UNION {UNION {{<<OrgRow(s, e, k)>> \o t : t \in OrgTablesFrom(e + 1, k + 1)}
                        : e \in s..MaxAddr} : s \in lo..MaxAddr})

OrgTables == OrgTablesFrom(0, 1)

\* the harness address 0.0.0.n
SmallAddr(n) == <<0, 0, 0, n>>

Idle == <<>>

\* combine.cfg is missing or unreadable
NoFile == [readable |-> FALSE, enrich_ip |-> "", enrich_dns |-> ""]

\* winnow() is not running
WinnowIdle ==
    /\ config = NoFile /\ in_file = Idle
    /\ cfg_success = FALSE /\ enrich_ip = FALSE /\ enrich_dns = FALSE /\ dnsdb = "unset"
    /\ queries = Idle /\ crop = Idle /\ i = 0 /\ wheat = Idle /\ enriched = Idle
    /\ out_file = Unwritten /\ enr_file = Unwritten /\ log = Idle

OrgInit ==
    /\ pc = "org_start"
    /\ rows \in OrgTables
    /\ gi_org = <<>>
    /\ address = None
    /\ org_result = None
    /\ WinnowIdle
    /\ dns_records = Idle /\ date = None /\ filtered = None /\ hits = None /\ ip_addr = None

OrgLoad ==
    /\ pc = "org_start"
    /\ gi_org' = load_gi_org(gi_org, rows)
    /\ pc' = "org_loaded"
    /\ UNCHANGED <<wvars, rows, ovars, dvars>>

OrgLookup ==
    /\ pc = "org_loaded"
    /\ \E n \in 0..MaxAddr :
          /\ address' = SmallAddr(n)
          /\ org_result' = org_by_addr(gi_org, SmallAddr(n))
    /\ pc' = "org_done"
    /\ UNCHANGED <<wvars, rows, gi_org, dvars>>

OrgNext == OrgLoad \/ OrgLookup

SpecOrg == OrgInit /\ [][OrgNext]_vars

\* row k of the harness table contains the looked-up address, numerically
RowContains(k) ==
    /\ ParseInt(rows[k].start) <= address[4]
    /\ address[4] <= ParseInt(rows[k].end)

\* C1: on a loaded table of pairwise disjoint intervals, org_by_addr returns the
\* AS number and name of the interval that contains the address when there is
\* one, and (None, None) exactly when there is none -- whatever the numbers of
\* decimal digits of the range_start keys.
C1_LookupFindsContainingInterval ==
    (pc = "org_done" /\ rows # <<>>) =>
        /\ \A k \in 1..Len(rows) :
              RowContains(k) =>
                  org_result = [raised |-> FALSE, as_num |-> Str(k),
                                as_name |-> <<"O">> \o Str(k)]
        /\ (~ \E k \in 1..Len(rows) : RowContains(k)) =>
              org_result = [raised |-> FALSE, as_num |-> None, as_name |-> None]

-----------------------------------------------------------------------------
(* Passive DNS: maxhits, filter_date, enrich_FQDN *)

\* s.rstrip('.'): every trailing dot removed
RECURSIVE Rstrip(_)
Rstrip(s) ==
    IF s # <<>> /\ s[Len(s)] = "." THEN Rstrip(SubSeq(s, 1, Len(s) - 1)) ELSE s

\* maxhits with the running choice replaced on a tie as well
RECURSIVE MaxhitsFromTies(_, _, _, _)
MaxhitsFromTies(dns, k, max, hostname) ==
    IF k > Len(dns) THEN hostname
    ELSE IF dns[k].count >= max /\ dns[k].count > 0
         THEN MaxhitsFromTies(dns, k + 1, dns[k].count, Rstrip(dns[k].rrname))
         ELSE MaxhitsFromTies(dns, k + 1, max, hostname)

\* the loop of maxhits from position k on, with the running max and hostname
RECURSIVE MaxhitsFrom(_, _, _, _)
MaxhitsFrom(dns, k, max, hostname) ==
    IF k > Len(dns) THEN hostname
    ELSE IF dns[k].count > max
         THEN MaxhitsFrom(dns, k + 1, dns[k].count, Rstrip(dns[k].rrname))
         ELSE MaxhitsFrom(dns, k + 1, max, hostname)

maxhits(dns) == MaxhitsFrom(dns, 1, 0, None)

\* two- and four-digit zero-padded decimal fields of strftime
Pad2(n) == <<DigitChars[(n \div 10) + 1], DigitChars[(n % 10) + 1]>>

Pad4(n) == Pad2(n \div 100) \o Pad2(n % 100)

\* datetime.strptime(date, '%Y-%m-%d'): a datetime at midnight
Strptime(d) ==
    [year |-> ParseInt(SubSeq(d, 1, 4)), month |-> ParseInt(SubSeq(d, 6, 7)),
     day |-> ParseInt(SubSeq(d, 9, 10)),
     hour |-> 0, minute |-> 0, second |-> 0, microsecond |-> 0]

\* datetime.time.min and datetime.time.max
TimeMin == [hour |-> 0, minute |-> 0, second |-> 0, microsecond |-> 0]

TimeMax == [hour |-> 23, minute |-> 59, second |-> 59, microsecond |-> 999999]

\* datetime.combine(date_dt, t)
Combine(d, t) ==
    [year |-> d.year, month |-> d.month, day |-> d.day,
     hour |-> t.hour, minute |-> t.minute, second |-> t.second,
     microsecond |-> t.microsecond]

\* dtm.strftime('%Y-%m-%d %H:%M:%S'): the microsecond field is not rendered
Strftime(dtm) ==
    Pad4(dtm.year) \o <<"-">> \o Pad2(dtm.month) \o <<"-">> \o Pad2(dtm.day) \o <<" ">>
    \o Pad2(dtm.hour) \o <<":">> \o Pad2(dtm.minute) \o <<":">> \o Pad2(dtm.second)

\* days from 1970-01-01 to the civil date y-m-d
DaysFromCivil(y, m, d) ==
    LET yy  == IF m <= 2 THEN y - 1 ELSE y
        era == yy \div 400
        yoe == yy - era * 400
        mp  == IF m > 2 THEN m - 3 ELSE m + 9
        doy == ((153 * mp + 2) \div 5) + d - 1
        doe == yoe * 365 + (yoe \div 4) - (yoe \div 100) + doy
    IN  era * 146097 + doe - 719468

\* dnsdb_query.time_parse of a 'YYYY-MM-DD HH:MM:SS' string: seconds since the epoch
time_parse(s) ==
    DaysFromCivil(ParseInt(SubSeq(s, 1, 4)), ParseInt(SubSeq(s, 6, 7)),
                  ParseInt(SubSeq(s, 9, 10))) * 86400
    + ParseInt(SubSeq(s, 12, 13)) * 3600 + ParseInt(SubSeq(s, 15, 16)) * 60
    + ParseInt(SubSeq(s, 18, 19))

\* t <= b and t >= b for an instant t = [sec, usec] and a bound b in whole seconds
InstantLeq(t, b) == t.sec < b \/ (t.sec = b /\ t.usec = 0)

InstantGeq(t, b) == t.sec >= b

\* dnsdb_query.filter_after: the records last seen at or after after_time
filter_after(dns, after_time) ==
    SelectSeq(dns, LAMBDA r : InstantGeq(r.time_last, time_parse(after_time)))

\* dnsdb_query.filter_before: the records first seen at or before before_time
filter_before(dns, before_time) ==
    SelectSeq(dns, LAMBDA r : InstantLeq(r.time_first, time_parse(before_time)))

\* start_dt and end_dt of filter_date
start_dt(d) == Strftime(Combine(Strptime(d), TimeMin))

end_dt(d) == Strftime(Combine(Strptime(d), TimeMax))

filter_date(dns, d) == filter_before(filter_after(dns, start_dt(d)), end_dt(d))

\* dnsdb.query_rrset(name, rrtype='A'): the service's A records for the owner
\* name, each with rrname the owner name in absolute form and rdata an address
query_rrset(name, answer) ==
    [k \in 1..Len(answer) |-> [answer[k] EXCEPT !.rrname = name \o <<".">>]]

\* enrich_FQDN(address, date, dnsdb), given the service's answer
enrich_FQDN(addr, d, answer) == maxhits(filter_date(query_rrset(addr, answer), d))

-----------------------------------------------------------------------------
(* Harness for passive DNS: one answer of the service, one date *)

SeqsUpTo(S, n) == UNION {[1..k -> S] : k \in 0..n}

\* the date strings 2021-06-01 .. 2021-06-03
DateStr(d) == Pad4(2021) \o <<"-">> \o Pad2(6) \o <<"-">> \o Pad2(d)

Dates == {DateStr(d) : d \in 1..3}

\* an instant of June 2021: seconds since the epoch and microseconds
At(d, h, m, sec, us) ==
    [sec |-> DaysFromCivil(2021, 6, d) * 86400 + h * 3600 + m * 60 + sec, usec |-> us]

\* observation windows <<time_first, time_last>> of the harness records
Windows ==
    { <<At(1, 23, 0, 0, 0), At(2, 1, 0, 0, 0)>>,             \* spans midnight
      <<At(1, 12, 0, 0, 0), At(1, 13, 0, 0, 0)>>,            \* inside 06-01
      <<At(2, 0, 0, 0, 0), At(2, 0, 0, 0, 0)>>,              \* on the first second of 06-02
      <<At(2, 23, 59, 59, 0), At(2, 23, 59, 59, 0)>>,        \* on the last whole second of 06-02
      <<At(1, 23, 59, 59, 500000), At(1, 23, 59, 59, 500000)>> }  \* within the last second of 06-01

HostNames == { <<"h", "1", ".">>, <<"h", "2">> }

Rdata(name) == IF name = <<"h", "2">> THEN <<"7", ".", "7", ".", "7", ".", "7">>
               ELSE <<"9", ".", "9", ".", "9", ".", "9">>

DnsPool ==
    { [rrname |-> n, rdata |-> Rdata(n), count |-> c, time_first |-> w[1], time_last |-> w[2]]
        : n \in HostNames, c \in 0..2, w \in Windows }

\* the FQDN the harness resolves
QueriedNames == { <<"e", "x", ".", "c", "o", "m">> }

DnsInit ==
    /\ pc = "dns_start"
    /\ dns_records \in SeqsUpTo(DnsPool, MaxRecs)
    /\ date \in Dates
    /\ filtered = None /\ hits = None /\ ip_addr = None /\ address = None
    /\ org_result = None /\ rows = Idle /\ gi_org = <<>>
    /\ WinnowIdle

DnsFilter ==
    /\ pc = "dns_start"
    /\ filtered' = filter_date(dns_records, date)
    /\ pc' = "dns_filtered"
    /\ UNCHANGED <<wvars, rows, gi_org, ovars, dns_records, date, hits, ip_addr>>

DnsMaxhits ==
    /\ pc = "dns_filtered"
    /\ hits' = maxhits(dns_records)
    /\ pc' = "dns_hits"
    /\ UNCHANGED <<wvars, rows, gi_org, ovars, dns_records, date, filtered, ip_addr>>

DnsEnrich ==
    /\ pc = "dns_hits"
    /\ \E h \in QueriedNames :
          /\ address' = h
          /\ ip_addr' = enrich_FQDN(h, date, dns_records)
    /\ pc' = "dns_done"
    /\ UNCHANGED <<wvars, rows, gi_org, org_result, dns_records, date, filtered, hits>>

DnsNext == DnsFilter \/ DnsMaxhits \/ DnsEnrich

SpecDns == DnsInit /\ [][DnsNext]_vars

\* the greatest observation count of a non-empty answer, and the first record that has it
TopCount(dns) == CHOOSE c \in {dns[k].count : k \in 1..Len(dns)} :
                    \A k \in 1..Len(dns) : dns[k].count <= c

FirstTop(dns) == CHOOSE k \in 1..Len(dns) :
                    /\ dns[k].count = TopCount(dns)
                    /\ \A j \in 1..(k - 1) : dns[j].count # TopCount(dns)

\* a name without its trailing root dot
NoRootDot(name) ==
    IF name # <<>> /\ name[Len(name)] = "." THEN SubSeq(name, 1, Len(name) - 1) ELSE name

\* C5: enrich_FQDN returns None or a resolved address -- the rdata of the
\* highest-count record that survives the date filter -- and never the queried
\* hostname itself.
C5_ResolvedAddressIsRdata ==
    pc = "dns_done" =>
        \/ ip_addr = None
        \/ /\ ip_addr # address
           /\ filtered # <<>>
           /\ ip_addr = filtered[FirstTop(filtered)].rdata

\* C6 as claimed: on every non-empty answer with counts >= 0, maxhits returns the
\* name (root dot removed) of the first record that has the highest count.
C6_MaxhitsFirstHighest ==
    (pc \in {"dns_hits", "dns_done"} /\ dns_records # <<>>) =>
        hits = NoRootDot(dns_records[FirstTop(dns_records)].rrname)

\* C6 amended: on every non-empty answer, if the highest count is positive
\* maxhits returns the name (root dot removed) of the first record that has it;
\* if every count is zero it returns None.
C6_MaxhitsFirstHighestPositive ==
    (pc \in {"dns_hits", "dns_done"} /\ dns_records # <<>>) =>
        IF TopCount(dns_records) > 0
        THEN hits = NoRootDot(dns_records[FirstTop(dns_records)].rrname)
        ELSE hits = None

\* C6 witness: two records tie at a positive highest count under different
\* names, and maxhits has returned the first one's name
C6_Witness ==
    /\ pc = "dns_hits"
    /\ Len(dns_records) = 2
    /\ dns_records[1].count = 2 /\ dns_records[2].count = 2
    /\ dns_records[1].rrname = <<"h", "1", ".">>
    /\ dns_records[2].rrname = <<"h", "2">>
    /\ hits = <<"h", "1">>

\* t1 <= t2 on instants
InstantBefore(t1, t2) == t1.sec < t2.sec \/ (t1.sec = t2.sec /\ t1.usec <= t2.usec)

\* the day of date d, from 00:00:00 to 23:59:59.999999
WindowStart(d) ==
    [sec |-> DaysFromCivil(2021, 6, ParseInt(SubSeq(d, 9, 10))) * 86400, usec |-> 0]

WindowEnd(d) ==
    [sec |-> DaysFromCivil(2021, 6, ParseInt(SubSeq(d, 9, 10))) * 86400 + 86399,
     usec |-> 999999]

\* C7: filter_date keeps a record if and only if first_seen <= window_end and
\* last_seen >= window_start, the window being the day from 00:00:00 to
\* 23:59:59.999999 inclusive.
C7_FilterKeepsOverlap ==
    pc \in {"dns_filtered", "dns_hits", "dns_done"} =>
        filtered = SelectSeq(dns_records,
                             LAMBDA r : /\ InstantBefore(r.time_first, WindowEnd(date))
                                        /\ InstantBefore(WindowStart(date), r.time_last))

-----------------------------------------------------------------------------
(* Classifier and reserved-range filter: is_ipv4, is_fqdn, reserved *)

\* the fields of s between the separators sep
RECURSIVE Split(_, _)
Split(s, sep) ==
    LET k == FirstIndex(s, sep)
    IN  IF k = 0 THEN <<s>>
        ELSE <<SubSeq(s, 1, k - 1)>> \o Split(SubSeq(s, k + 1, Len(s)), sep)

\* (?:25[0-5]|2[0-4][0-9]|[01]?[0-9][0-9]?) matching the whole of part p:
\* one to three digits; three digits start with 0 or 1, or are 200..255
OctetShape(p) ==
    /\ Len(p) \in 1..3
    /\ \A k \in 1..Len(p) : IsDigit(p[k])
    /\ Len(p) = 3 => \/ p[1] \in {"0", "1"}
                     \/ p[1] = "2" /\ DigitVal(p[2]) <= 4
                     \/ p[1] = "2" /\ p[2] = "5" /\ DigitVal(p[3]) <= 5

is_ipv4(addr) ==
    LET parts == Split(addr, ".")
    IN  Len(parts) = 4 /\ \A k \in 1..4 : OctetShape(parts[k])

Letters == {"a", "b", "c", "d", "e", "f", "g", "h", "i", "j", "k", "l", "m",
            "n", "o", "p", "q", "r", "s", "t", "u", "v", "w", "x", "y", "z",
            "A", "B", "C", "D", "E", "F", "G", "H", "I", "J", "K", "L", "M",
            "N", "O", "P", "Q", "R", "S", "T", "U", "V", "W", "X", "Y", "Z"}

\* (?!-)[a-zA-Z0-9-]{1,63}(?<!-) matching the whole of label p
LabelShape(p) ==
    /\ Len(p) \in 1..63
    /\ \A k \in 1..Len(p) : p[k] \in Letters \/ IsDigit(p[k]) \/ p[k] = "-"
    /\ p[1] # "-" /\ p[Len(p)] # "-"

\* [a-zA-Z]{2,63} matching the whole of the last label p
TldShape(p) == Len(p) \in 2..63 /\ \A k \in 1..Len(p) : p[k] \in Letters

is_fqdn(addr) ==
    LET parts == Split(addr, ".")
    IN  /\ Len(addr) \in 4..255
        /\ Len(parts) >= 2
        /\ \A k \in 1..(Len(parts) - 1) : LabelShape(parts[k])
        /\ TldShape(parts[Len(parts)])

\* IPAddress(addr) of a dotted quad: its four octets
IPAddress(addr) == [k \in 1..4 |-> ParseInt(Split(addr, ".")[k])]

\* a <= b on addresses
RECURSIVE AddrLeq(_, _)
AddrLeq(a, b) ==
    IF a = <<>> THEN TRUE
    ELSE IF a[1] # b[1] THEN a[1] < b[1]
    ELSE AddrLeq(Tail(a), Tail(b))

RECURSIVE Pow2(_)
Pow2(n) == IF n = 0 THEN 1 ELSE 2 * Pow2(n - 1)

\* the number of host bits of octet k under a prefix of length len
HostBits(len, k) ==
    LET net == len - 8 * (k - 1)
    IN  IF net >= 8 THEN 0 ELSE IF net <= 0 THEN 8 ELSE 8 - net

\* the last address of the block  base/len
CidrLast(base, len) == [k \in 1..4 |-> base[k] + Pow2(HostBits(len, k)) - 1]

InCidr(a, cidr) == AddrLeq(cidr[1], a) /\ AddrLeq(a, CidrLast(cidr[1], cidr[2]))

\* reserved_ranges, each block as <<base address, prefix length>>
reserved_ranges ==
    { <<<<0, 0, 0, 0>>, 8>>, <<<<100, 64, 0, 0>>, 10>>, <<<<127, 0, 0, 0>>, 8>>,
      <<<<192, 88, 99, 0>>, 24>>, <<<<198, 18, 0, 0>>, 15>>, <<<<198, 51, 100, 0>>, 24>>,
      <<<<203, 0, 113, 0>>, 24>>, <<<<233, 252, 0, 0>>, 24>> }

\* address.is_private(): the RFC 1918 blocks of netaddr's table
is_private(a) ==
    \E c \in { <<<<10, 0, 0, 0>>, 8>>, <<<<172, 16, 0, 0>>, 12>>, <<<<192, 168, 0, 0>>, 16>> } :
        InCidr(a, c)

\* address.is_reserved(): 240.0.0.0/4 of netaddr's table
is_reserved(a) == InCidr(a, <<<<240, 0, 0, 0>>, 4>>)

\* reserved() without the test against reserved_ranges
reservedUnlisted(a) == is_reserved(a) \/ is_private(a)

reserved(a) ==
    LET a_reserved == is_reserved(a)
        a_private == is_private(a)
        a_inr == \E c \in reserved_ranges : InCidr(a, c)
    IN  IF a_reserved \/ a_private \/ a_inr THEN TRUE ELSE FALSE

\* enrich_IPv4(address, geo_data, dnsdb): country is what the geo database
\* returns, answer what dnsdb.query_rdata_ip returns; the fourth field is None.
\* client says whether a dnsdb client was passed; queried whether it was asked
enrich_IPv4(d, a, country, client, answer) ==
    LET org == org_by_addr(d, a)
        hostname == IF client THEN maxhits(answer) ELSE None
    IN  [raised |-> org.raised,
         queried |-> client /\ ~org.raised,
         fields |-> <<org.as_num, org.as_name, country, None, hostname>>]

-----------------------------------------------------------------------------
(* winnow(in_file, out_file, enr_file) *)

\* the dotted-quad string of four octets
Dotted(o) == Str(o[1]) \o <<".">> \o Str(o[2]) \o <<".">> \o Str(o[3]) \o <<".">> \o Str(o[4])

\* an indicator record (addr, addr_type, direction, source, note, date)
Rec(addr, addr_type) == <<addr, addr_type, "inbound", "feedA", "note1", DateStr(1)>>

ExCom == <<"e", "x", ".", "c", "o", "m">>

\* addresses of the eight blocks of reserved_ranges, a private and a reserved one
ReservedSamples ==
    { <<0, 1, 2, 3>>, <<100, 127, 255, 255>>, <<127, 0, 0, 1>>, <<192, 88, 99, 1>>,
      <<198, 19, 255, 255>>, <<198, 51, 100, 7>>, <<203, 0, 113, 9>>, <<233, 252, 0, 1>>,
      <<10, 1, 2, 3>>, <<240, 0, 0, 1>> }

\* the records an input batch is made of
RecordPool ==
    { Rec(Dotted(<<8, 8, 8, 8>>), "IPv4"),    \* routable address
      Rec(Dotted(<<127, 0, 0, 1>>), "IPv4"),  \* loopback
      Rec(Dotted(<<10, 1, 2, 3>>), "IPv4"),   \* private
      Rec(ExCom, "FQDN"),                     \* domain name
      Rec(Dotted(<<8, 8, 8, 8>>), "FQDN"),    \* declared type does not fit the value
      Rec(ExCom, "IPv4"),
      Rec(<<"2", "5", "6", ".", "1", ".", "1", ".", "1">>, "IPv4"),  \* octet out of range
      Rec(ExCom, "URL") }                     \* unrecognised declared type

\* the records of the batches that exercise the reserved-range filter
ReservedPool ==
    { Rec(Dotted(o), "IPv4") : o \in ReservedSamples }
    \cup { Rec(Dotted(<<8, 8, 8, 8>>), "IPv4"), Rec(ExCom, "FQDN"), Rec(ExCom, "URL") }

\* contents of data/GeoIPASNum2.csv: a row for 8.0.0.0/8, a row for 9.0.0.0/8
TableEight ==
    <<[start |-> StrInt(<<8, 0, 0, 0>>), end |-> StrInt(<<8, 255, 255, 255>>),
       org |-> <<"A", "S", "1", "0", "0", " ", "E", "x", " ", "O", "r", "g">>]>>

TableNine ==
    <<[start |-> StrInt(<<9, 0, 0, 0>>), end |-> StrInt(<<9, 255, 255, 255>>),
       org |-> <<"A", "S", "9", " ", "N", "i", "n", "e">>]>>

RefTables == {<<>>, TableEight, TableNine}

\* the contents of combine.cfg when it can be read
Configs == [readable : {TRUE}, enrich_ip : {"1", "0"}, enrich_dns : {"1", "0"}]

\* what geo_data.country_code_by_addr may return
Countries == {None, <<"U", "S">>}

\* what the passive-DNS service may answer a record's query
Answers ==
    { <<>>,
      <<[rrname |-> <<"h", "1", ".">>, rdata |-> <<"9", ".", "9", ".", "9", ".", "9">>,
         count |-> 1, time_first |-> At(1, 12, 0, 0, 0), time_last |-> At(1, 13, 0, 0, 0)]>> }

\* winnow() is about to run on a batch from pool, with one of the tables and
\* one of the configurations
InitFrom(pool, tables, configs) ==
    /\ pc = "start"
    /\ config \in configs
    /\ in_file \in SeqsUpTo(pool, MaxBatch)
    /\ rows \in tables
    /\ cfg_success = FALSE /\ enrich_ip = FALSE /\ enrich_dns = FALSE /\ dnsdb = "unset"
    /\ queries = <<>> /\ crop = Idle /\ gi_org = <<>> /\ i = 0
    /\ wheat = Idle /\ enriched = Idle
    /\ out_file = Unwritten /\ enr_file = Unwritten /\ log = <<>>
    /\ address = None /\ org_result = None
    /\ dns_records = Idle /\ date = None /\ filtered = None /\ hits = None /\ ip_addr = None

Init == InitFrom(RecordPool, RefTables, {NoFile} \cup Configs)

\* the batches over ReservedPool, with both enrichments on, both off, or no configuration
InitReserved ==
    InitFrom(ReservedPool, {<<>>, TableEight},
             {NoFile} \cup {c \in Configs : c.enrich_ip = c.enrich_dns})

\* winnow without its early return: it goes on with both flags off
ReadConfigGoesOn ==
    /\ pc = "start"
    /\ cfg_success' = (config # NoFile)
    /\ enrich_ip' = (config.enrich_ip = "1")
    /\ enrich_dns' = (config.enrich_dns = "1")
    /\ log' = IF config = NoFile
              THEN log \o << <<"error", "Could not read combine.cfg">>,
                             <<"error", "HINT: edit combine-example.cfg">> >>
              ELSE log
    /\ pc' = "configured"
    /\ UNCHANGED <<config, in_file, dnsdb, queries, crop, i, wheat, enriched,
                   out_file, enr_file, rows, gi_org, ovars, dvars>>

\* lines 103-126: the configuration is read; without it winnow returns
ReadConfig ==
    /\ pc = "start"
    /\ cfg_success' = (config # NoFile)
    /\ IF config = NoFile
       THEN /\ log' = log \o << <<"error", "Could not read combine.cfg">>,
                               <<"error", "HINT: edit combine-example.cfg">> >>
            /\ pc' = "returned"
            /\ UNCHANGED <<enrich_ip, enrich_dns>>
       ELSE /\ enrich_ip' = (config.enrich_ip = "1")
            /\ enrich_dns' = (config.enrich_dns = "1")
            /\ log' = log \o
                 << <<"info", "Enriching IPv4 indicators", IF config.enrich_ip = "1" THEN "TRUE" ELSE "FALSE">>,
                    <<"info", "Enriching DNS indicators", IF config.enrich_dns = "1" THEN "TRUE" ELSE "FALSE">> >>
            /\ pc' = "configured"
    /\ UNCHANGED <<config, in_file, dnsdb, queries, crop, i, wheat, enriched,
                   out_file, enr_file, rows, gi_org, ovars, dvars>>

\* lines 128-134: the client is made and probed with a query for google.com
ProbeDnsdb ==
    /\ pc = "configured"
    /\ queries' = Append(queries, <<"rdata_name", "google.com">>)
    /\ \E answered \in BOOLEAN :
          IF answered
          THEN dnsdb' = "client" /\ log' = Append(log, <<"info", "Setting up DNSDB client">>)
          ELSE /\ dnsdb' = "None"
               /\ log' = log \o << <<"info", "Setting up DNSDB client">>,
                                   <<"info", "Invalid DNSDB configuration found">> >>
    /\ pc' = "probed"
    /\ UNCHANGED <<config, in_file, cfg_success, enrich_ip, enrich_dns, crop, i, wheat,
                   enriched, out_file, enr_file, rows, gi_org, ovars, dvars>>

\* lines 136-147: the batch and the reference data are loaded, the outputs start empty
LoadData ==
    /\ pc = "probed"
    /\ crop' = in_file
    /\ gi_org' = load_gi_org(gi_org, rows)
    /\ wheat' = <<>> /\ enriched' = <<>> /\ i' = 0
    /\ log' = log \o << <<"info", "Loading GeoIP data">>, <<"info", "Beginning winnowing process">> >>
    /\ pc' = "loop"
    /\ UNCHANGED <<config, in_file, cfg_success, enrich_ip, enrich_dns, dnsdb, queries,
                   out_file, enr_file, rows, ovars, dvars>>

\* the record the loop is at, and how lines 150 and 163 classify it
Each == crop[i + 1]

InLoop == pc = "loop" /\ i < Len(crop)

IsIPv4Record(each) == each[2] = "IPv4" /\ is_ipv4(each[1])

IsFQDNRecord(each) == ~IsIPv4Record(each) /\ each[2] = "FQDN" /\ is_fqdn(each[1])

\* the client passed whatever enrich_ip is
PassesClientAnyFlag == dnsdb = "client"

\* the dnsdb argument winnow passes to enrich_IPv4 is a client (lines 155-160)
PassesClient == enrich_ip /\ dnsdb = "client"

\* the IPv4 branch with the enriched entry appended only if enrich_ip is set
StepIPv4EnrichIfEnabled ==
    /\ pc = "loop" /\ i < Len(crop)
    /\ crop[i + 1][2] = "IPv4" /\ is_ipv4(crop[i + 1][1])
    /\ ~reserved(IPAddress(crop[i + 1][1]))
    /\ \E country \in Countries, answer \in Answers :
          LET e == enrich_IPv4(gi_org, IPAddress(crop[i + 1][1]), country,
                               enrich_ip /\ dnsdb = "client", answer)
          IN  /\ ~e.raised
              /\ wheat' = Append(wheat, crop[i + 1])
              /\ enriched' = IF enrich_ip THEN Append(enriched, crop[i + 1] \o e.fields)
                             ELSE enriched
              /\ queries' = IF e.queried
                            THEN Append(queries, <<"rdata_ip", crop[i + 1][1]>>)
                            ELSE queries
    /\ i' = i + 1
    /\ UNCHANGED <<pc, config, in_file, cfg_success, enrich_ip, enrich_dns, dnsdb, crop,
                   out_file, enr_file, log, rows, gi_org, ovars, dvars>>

\* lines 150-160: a routable IPv4 record is kept and enriched
StepIPv4 ==
    /\ InLoop
    /\ IsIPv4Record(Each) /\ ~reserved(IPAddress(Each[1]))
    /\ \E country \in Countries, answer \in Answers :
          LET e == enrich_IPv4(gi_org, IPAddress(Each[1]), country, PassesClient, answer)
          IN  /\ ~e.raised
              /\ wheat' = Append(wheat, Each)
              /\ enriched' = Append(enriched, Each \o e.fields)
              /\ queries' = IF e.queried THEN Append(queries, <<"rdata_ip", Each[1]>>)
                            ELSE queries
    /\ i' = i + 1
    /\ UNCHANGED <<pc, config, in_file, cfg_success, enrich_ip, enrich_dns, dnsdb, crop,
                   out_file, enr_file, log, rows, gi_org, ovars, dvars>>

\* lines 150-156 and 35: the record is kept, then org_by_addr raises IndexError,
\* which nothing catches: winnow ends without writing its outputs
StepIPv4Raises ==
    /\ InLoop
    /\ IsIPv4Record(Each) /\ ~reserved(IPAddress(Each[1]))
    /\ enrich_IPv4(gi_org, IPAddress(Each[1]), None, PassesClient, <<>>).raised
    /\ wheat' = Append(wheat, Each)
    /\ pc' = "raised"
    /\ UNCHANGED <<config, in_file, cfg_success, enrich_ip, enrich_dns, dnsdb, queries,
                   crop, i, enriched, out_file, enr_file, log, rows, gi_org, ovars, dvars>>

\* lines 150-153, 161-162: a reserved IPv4 record is dropped with an error
StepReserved ==
    /\ InLoop
    /\ IsIPv4Record(Each) /\ reserved(IPAddress(Each[1]))
    /\ log' = Append(log, <<"error", "Found invalid address", Each[1], Each[4]>>)
    /\ i' = i + 1
    /\ UNCHANGED <<pc, config, in_file, cfg_success, enrich_ip, enrich_dns, dnsdb, queries,
                   crop, wheat, enriched, out_file, enr_file, rows, gi_org, ovars, dvars>>

\* lines 163-168: an FQDN record is kept, and enriched if enrich_dns and dnsdb
StepFQDN ==
    /\ InLoop
    /\ IsFQDNRecord(Each)
    /\ wheat' = Append(wheat, Each)
    /\ IF enrich_dns /\ dnsdb = "client"
       THEN \E answer \in Answers :
               LET res == enrich_FQDN(Each[1], Each[6], answer)
               IN  /\ queries' = Append(queries, <<"rrset", Each[1]>>)
                   /\ enriched' = Append(enriched, Each \o <<res>>)
                   /\ log' = IF res # None /\ res # <<>>
                             THEN Append(log, <<"info", "Mapped", Each[1], res>>)
                             ELSE log
       ELSE UNCHANGED <<queries, enriched, log>>
    /\ i' = i + 1
    /\ UNCHANGED <<pc, config, in_file, cfg_success, enrich_ip, enrich_dns, dnsdb, crop,
                   out_file, enr_file, rows, gi_org, ovars, dvars>>

\* the last branch keeping the record it reports
StepRejectKeeps ==
    /\ pc = "loop" /\ i < Len(crop)
    /\ ~(crop[i + 1][2] = "IPv4" /\ is_ipv4(crop[i + 1][1]))
    /\ ~(crop[i + 1][2] = "FQDN" /\ is_fqdn(crop[i + 1][1]))
    /\ wheat' = Append(wheat, crop[i + 1])
    /\ log' = Append(log, <<"error", "Could not determine address type",
                            crop[i + 1][1], crop[i + 1][2]>>)
    /\ i' = i + 1
    /\ UNCHANGED <<pc, config, in_file, cfg_success, enrich_ip, enrich_dns, dnsdb, queries,
                   crop, enriched, out_file, enr_file, rows, gi_org, ovars, dvars>>

\* lines 169-170: any other record is dropped with an error
StepReject ==
    /\ InLoop
    /\ ~IsIPv4Record(Each) /\ ~IsFQDNRecord(Each)
    /\ log' = Append(log, <<"error", "Could not determine address type", Each[1], Each[2]>>)
    /\ i' = i + 1
    /\ UNCHANGED <<pc, config, in_file, cfg_success, enrich_ip, enrich_dns, dnsdb, queries,
                   crop, wheat, enriched, out_file, enr_file, rows, gi_org, ovars, dvars>>

\* lines 172-179: after the loop both lists are written
Dump ==
    /\ pc = "loop" /\ i = Len(crop)
    /\ out_file' = wheat
    /\ enr_file' = enriched
    /\ log' = Append(log, <<"info", "Dumping results">>)
    /\ pc' = "done"
    /\ UNCHANGED <<config, in_file, cfg_success, enrich_ip, enrich_dns, dnsdb, queries,
                   crop, i, wheat, enriched, rows, gi_org, ovars, dvars>>

Next ==
    \/ ReadConfig
    \/ ProbeDnsdb
    \/ LoadData
    \/ StepIPv4
    \/ StepIPv4Raises
    \/ StepReserved
    \/ StepFQDN
    \/ StepReject
    \/ Dump

Spec == Init /\ [][Next]_vars

\* the same program on the batches that exercise the reserved-range filter
SpecReserved == InitReserved /\ [][Next]_vars

-----------------------------------------------------------------------------
(* Properties of winnow *)

\* the indicator record an entry of either output was made of
SixOf(e) == SubSeq(e, 1, 6)

SixesOf(es) == [k \in 1..Len(es) |-> SixOf(es[k])]

IsPrefix(s, t) == Len(s) <= Len(t) /\ s = SubSeq(t, 1, Len(s))

\* s can be had from t by deleting elements
RECURSIVE IsSubseq(_, _)
IsSubseq(s, t) ==
    IF s = <<>> THEN TRUE
    ELSE IF t = <<>> THEN FALSE
    ELSE IF s[1] = t[1] THEN IsSubseq(Tail(s), Tail(t))
    ELSE IsSubseq(s, Tail(t))

\* every record of the lists and files winnow has written so far
Emitted ==
    {wheat[k] : k \in 1..Len(wheat)} \cup {SixOf(enriched[k]) : k \in 1..Len(enriched)}
    \cup (IF out_file = Unwritten THEN {} ELSE {out_file[k] : k \in 1..Len(out_file)})
    \cup (IF enr_file = Unwritten THEN {} ELSE {SixOf(enr_file[k]) : k \in 1..Len(enr_file)})

\* the address o lies in one of the eight blocks, or is classified private or reserved
InReservedSpace(o) ==
    \/ o[1] = 0
    \/ o[1] = 100 /\ o[2] \in 64..127
    \/ o[1] = 127
    \/ o[1] = 192 /\ o[2] = 88 /\ o[3] = 99
    \/ o[1] = 198 /\ o[2] \in 18..19
    \/ o[1] = 198 /\ o[2] = 51 /\ o[3] = 100
    \/ o[1] = 203 /\ o[2] = 0 /\ o[3] = 113
    \/ o[1] = 233 /\ o[2] = 252 /\ o[3] = 0
    \/ is_private(o)
    \/ is_reserved(o)

DeclaredReserved(r) ==
    r[2] = "IPv4" /\ is_ipv4(r[1]) /\ InReservedSpace(IPAddress(r[1]))

\* C2: a record declared IPv4 whose address lies in one of the eight reserved
\* blocks, or is private or reserved, makes reserved() true and is in neither
\* the cleaned nor the enriched sequence, during the loop and in the outputs.
C2_ReservedNeverEmitted ==
    /\ \A k \in 1..Len(in_file) :
          DeclaredReserved(in_file[k]) => reserved(IPAddress(in_file[k][1]))
    /\ \A r \in Emitted : ~DeclaredReserved(r)

\* C2 witness: a batch of an address of 192.88.99.0/24 and of 8.8.8.8 has been
\* winnowed and written: only the second record is in the outputs
C2_Witness ==
    /\ pc = "done"
    /\ crop = <<Rec(Dotted(<<192, 88, 99, 1>>), "IPv4"), Rec(Dotted(<<8, 8, 8, 8>>), "IPv4")>>
    /\ out_file = <<Rec(Dotted(<<8, 8, 8, 8>>), "IPv4")>>
    /\ Len(enr_file) = 1

\* the records the cleaned sequence keeps
Kept(r) ==
    \/ r[2] = "IPv4" /\ is_ipv4(r[1]) /\ ~reserved(IPAddress(r[1]))
    \/ r[2] = "FQDN" /\ is_fqdn(r[1])

\* C3: the cleaned sequence is the input batch restricted, in order and with
\* each record unchanged, to the routable IPv4 records and the FQDN records;
\* every other record is in neither output; after each step of the loop the
\* cleaned sequence is a prefix of its final value.
C3_CleanedIsFilteredInput ==
    /\ pc = "loop" => wheat = SelectSeq(SubSeq(crop, 1, i), Kept)
    /\ pc \in {"loop", "raised", "done"} => IsPrefix(wheat, SelectSeq(crop, Kept))
    /\ pc = "done" => /\ wheat = SelectSeq(crop, Kept)
                      /\ out_file = wheat
                      /\ \A k \in 1..Len(out_file) : Len(out_file[k]) = 6
    /\ \A r \in Emitted : Kept(r)

\* C3 witness: of a written batch the first record was dropped and the second kept
C3_Witness ==
    /\ pc = "done"
    /\ Len(crop) = 2
    /\ crop[1] = Rec(ExCom, "URL")
    /\ crop[2] = Rec(ExCom, "FQDN")
    /\ out_file = <<crop[2]>>

\* the IPv4 entries of the enriched sequence
IPv4Entries == {k \in 1..Len(enriched) : enriched[k][2] = "IPv4"}

\* C4 as claimed: the reverse lookup is made only if enrich_dns is set and a
\* client is available; with enrich_ip set and enrich_dns not set the
\* resolved_hostname of every IPv4 entry is absent.
C4_ReverseLookupNeedsDnsFlag ==
    /\ \A k \in 1..Len(queries) :
          queries[k][1] = "rdata_ip" => enrich_dns /\ dnsdb = "client"
    /\ (enrich_ip /\ ~enrich_dns) => \A k \in IPv4Entries : enriched[k][11] = None

\* C4 amended: the reverse lookup is made only if enrich_ip is set and a client
\* is available; with enrich_ip set and enrich_dns not set the
\* resolved_hostname of every IPv4 entry is absent when the canary found no
\* working client.
C4_ReverseLookupNeedsIpFlag ==
    /\ \A k \in 1..Len(queries) :
          queries[k][1] = "rdata_ip" => enrich_ip /\ dnsdb = "client"
    /\ (enrich_ip /\ ~enrich_dns /\ dnsdb # "client") =>
          \A k \in IPv4Entries : enriched[k][11] = None
    /\ ~enrich_ip => \A k \in IPv4Entries : enriched[k][11] = None

\* C4 witness: enrich_ip set, enrich_dns not set, a working client: the reverse
\* lookup was made for 8.8.8.8 and its result is in the enriched entry
C4_Witness ==
    /\ enrich_ip /\ ~enrich_dns /\ dnsdb = "client"
    /\ Len(enriched) = 1
    /\ enriched[1][1] = Dotted(<<8, 8, 8, 8>>)
    /\ enriched[1][11] = <<"h", "1">>
    /\ \E k \in 1..Len(queries) : queries[k] = <<"rdata_ip", Dotted(<<8, 8, 8, 8>>)>>

FatalEvent == <<"error", "Could not read combine.cfg">>

\* the events that report a dropped record
IsRejection(ev) == ev[2] \in {"Found invalid address", "Could not determine address type"}

\* C8: if the configuration cannot be read, winnow stops before the canary
\* query, before the batch and the index are loaded and before any record is
\* processed; no record is classified or enriched and neither output is
\* written; the failure is reported by its own event, which no run that read
\* its configuration logs and which is not a rejection event.
C8_NoConfigNoRun ==
    /\ config = NoFile =>
          /\ pc \in {"start", "returned"}
          /\ dnsdb = "unset" /\ queries = <<>>
          /\ crop = Idle /\ gi_org = <<>>
          /\ i = 0 /\ wheat = Idle /\ enriched = Idle
          /\ out_file = Unwritten /\ enr_file = Unwritten
          /\ \A k \in 1..Len(log) : ~IsRejection(log[k])
          /\ pc = "returned" => Len(log) = 2 /\ log[1] = FatalEvent
    /\ config # NoFile =>
          /\ pc # "returned"
          /\ \A k \in 1..Len(log) : log[k] # FatalEvent

\* C8 witness: winnow has returned on a missing configuration with a batch of
\* two records waiting in in_file
C8_Witness ==
    /\ pc = "returned"
    /\ config = NoFile
    /\ Len(in_file) = 2
    /\ log[1] = FatalEvent

\* C9: once the configuration is read, no outcome of a per-record lookup ends
\* the run before both outputs are written: winnow never leaves the loop by an
\* exception.
C9_NoLookupAbortsRun == pc # "raised"

\* the records that get an enriched entry
EnrKept(r) ==
    \/ r[2] = "IPv4" /\ is_ipv4(r[1]) /\ ~reserved(IPAddress(r[1]))
    \/ r[2] = "FQDN" /\ is_fqdn(r[1]) /\ enrich_dns /\ dnsdb = "client"

\* C10: after every step of the loop the enriched sequence has one entry for
\* each routable IPv4 record processed so far, whatever enrich_ip is, and one
\* for each FQDN record processed so far exactly if enrich_dns is set and a
\* client is available; the records of its entries are a subsequence of the
\* cleaned sequence, so it is never the longer one and keeps input order.
C10_EnrichedFollowsCleaned ==
    pc \in {"loop", "raised", "done"} =>
        /\ SixesOf(enriched) = SelectSeq(SubSeq(crop, 1, i), EnrKept)
        /\ IsSubseq(SixesOf(enriched), wheat)
        /\ Len(enriched) <= Len(wheat)
        /\ \A k \in 1..Len(enriched) :
              Len(enriched[k]) = IF enriched[k][2] = "IPv4" THEN 11 ELSE 7

\* C10 witness: with enrich_ip and enrich_dns not set, an FQDN record and then
\* 8.8.8.8 have been processed: two cleaned records, one enriched entry
C10_Witness ==
    /\ pc = "loop" /\ i = 2
    /\ ~enrich_ip /\ ~enrich_dns
    /\ crop = <<Rec(ExCom, "FQDN"), Rec(Dotted(<<8, 8, 8, 8>>), "IPv4")>>
    /\ wheat = crop
    /\ Len(enriched) = 1
    /\ SixOf(enriched[1]) = crop[2]

====
